---- MODULE Spec2Model ----
(***************************************************************************)
(* PostgreSQL MCP server (postgres_mcp/server.py).                         *)
(*                                                                         *)
(* The server dispatches tools/call requests by name to four handlers.     *)
(* The handlers are coroutines without an await in their bodies, so each   *)
(* one runs to completion as a single step of the event loop: one action   *)
(* per handler.  The psycopg2 driver is the environment: every driver call *)
(* a handler makes either succeeds or raises, chosen nondeterministically. *)
(*                                                                         *)
(* A SQL text is a sequence of tokens.  The handlers only look at the      *)
(* leading token of the stripped, upper-cased text, never inside it.       *)
(***************************************************************************)
EXTENDS Integers, Sequences, FiniteSets, TLC

VARIABLES pc, request, handler, result, raised, calls, openConns, catalog,
          logged, rowcount, connection_config

vars ==
  <<pc, request, handler, result, raised, calls, openConns, catalog, logged,
    rowcount, connection_config>>

(***************************************************************************)
(* Bounds                                                                  *)
(***************************************************************************)
MaxTail == 3

MaxRows == 2

MaxRowcount == 2

(***************************************************************************)
(* SQL texts                                                               *)
(***************************************************************************)
Keywords ==
  {"SELECT", "WITH", "EXPLAIN", "INSERT", "UPDATE", "DELETE", "MERGE",
   "DROP", "TRUNCATE", "ALTER"}

LowerKeywords == {"select", "insert"}

Whitespace == " "

Comment == "/*;*/"

Quote == "'"

Semicolon == ";"

HeadTokens == Keywords \cup LowerKeywords

TailTokens == {Semicolon, Quote, "DROP"}

Leads == {<<>>, <<Whitespace>>, <<Comment>>}

Tails == UNION {[1..n -> TailTokens] : n \in 0..MaxTail}

SqlTexts ==
  {l \o <<k>> \o t : l \in Leads, k \in HeadTokens, t \in Tails}
    \cup {<<>>, <<Whitespace>>}

\* arguments.get(key) of a key the caller did not send
None == <<"<None>">>

NoneStr == "<None>"

SqlArgs == SqlTexts \cup {None}

AllowWriteArgs == {NoneStr, "false", "true"}

SchemaArgs == {NoneStr, "public", "app"}

TableNameArgs == {NoneStr, "", "users"}

\* max_rows: <<>> when the caller did not send it, <<n>> otherwise
MaxRowsArgs == {<<1>>}

NoArguments ==
  [sql |-> None, allow_write |-> NoneStr, max_rows |-> <<>>,
   schema |-> NoneStr, table_name |-> NoneStr]

\* the arguments a caller may send along with sql
QueryOptions ==
  {[allow_write |-> aw, max_rows |-> <<>>] : aw \in AllowWriteArgs}
    \cup {[allow_write |-> NoneStr, max_rows |-> n] : n \in MaxRowsArgs}

NoRequest == [name |-> "", arguments |-> NoArguments]

ToolNames == {"query", "list_schemas", "list_tables", "describe_table"}

UnknownNames == {"explain_query", "list_views"}

(***************************************************************************)
(* str.strip(), str.upper(), str.startswith() on token sequences           *)
(***************************************************************************)
RECURSIVE LStrip(_)
LStrip(s) ==
  IF s # <<>> /\ Head(s) = Whitespace THEN LStrip(Tail(s)) ELSE s

RECURSIVE RStrip(_)
RStrip(s) ==
  IF s # <<>> /\ s[Len(s)] = Whitespace
    THEN RStrip(SubSeq(s, 1, Len(s) - 1))
    ELSE s

Strip(s) == RStrip(LStrip(s))

UpperToken(t) ==
  CASE t = "select" -> "SELECT"
    [] t = "insert" -> "INSERT"
    [] OTHER -> t

Upper(s) == [i \in 1..Len(s) |-> UpperToken(s[i])]

StartsWith(s, t) == s # <<>> /\ Head(s) = t

\* sql.strip().upper().startswith('SELECT')
IsSelect(sql) == StartsWith(Upper(Strip(sql)), "SELECT")

\* Python truthiness of arguments.get(...): None and "" are falsy
Falsy(v) == v = None \/ v = <<>>

FalsyStr(v) == v = NoneStr \/ v = ""

(***************************************************************************)
(* Results, exceptions, driver calls                                       *)
(***************************************************************************)
NoException == [type |-> "none", msg |-> <<>>]

ValueError(msg) == [type |-> "ValueError", msg |-> msg]

Plain(pieces) == [format |-> "plain", body |-> pieces]

\* json.dumps(value, indent=2, default=str)
JsonDumps(value) == [format |-> "json", body |-> value]

TextContent(text) == [type |-> "text", text |-> text]

\* the except branch reporting a fixed message instead of str(e)
ErrorText_NoDetail(prefix, err) == Plain(<<prefix>>)

ErrorText(prefix, err) == Plain(<<prefix, err>>)

Errors == {"Connection failed", "Query failed"}

RowLists == {[i \in 1..n |-> i] : n \in 0..MaxRows}

Step(op, arg) == [op |-> op, arg |-> arg]

Call(op, arg, err) == [op |-> op, arg |-> arg, err |-> err]

IsDriverCall(c) == c.op # "serialize"

Outcome(h, res, exc, log) ==
  [handler |-> h, result |-> res, raised |-> exc, calls |-> log,
   logged |-> <<>>]

(***************************************************************************)
(* The driver as environment: the failAt-th step of a handler raises err   *)
(* (0: none does); fetchall returns rows, cursor.rowcount is rowcount.     *)
(***************************************************************************)
\* the process environment: nothing set, or every POSTGRES_* variable set
Environments ==
  {[LANG |-> "C"],
   [LANG |-> "C", POSTGRES_HOST |-> "db.internal", POSTGRES_PORT |-> "5433",
    POSTGRES_USER |-> "app", POSTGRES_PASSWORD |-> "secret",
    POSTGRES_DB |-> "shop"]}

\* os.getenv(name, default)
Getenv(env, name, default) ==
  IF name \in DOMAIN env THEN env[name] ELSE default

\* int(text) for the decimal numerals of the port numbers in use
ParseInt(text) == CHOOSE n \in 5432..5433 : ToString(n) = text

\* __init__: the connection configuration read from the environment
ConnectionConfig(env) ==
  [host |-> Getenv(env, "POSTGRES_HOST", "localhost"),
   port |-> IF "POSTGRES_PORT" \in DOMAIN env
              THEN ParseInt(env["POSTGRES_PORT"])
              ELSE 5432,
   user |-> Getenv(env, "POSTGRES_USER", "postgres"),
   password |-> Getenv(env, "POSTGRES_PASSWORD", "postgres"),
   database |-> Getenv(env, "POSTGRES_DB", "postgres")]

\* psycopg2.connect called with the default host whatever is configured
ConnectStep_DefaultHost ==
  Step("connect",
       [host |-> "localhost",
        port |-> connection_config["port"],
        user |-> connection_config["user"],
        password |-> connection_config["password"],
        database |-> connection_config["database"],
        cursor_factory |-> "RealDictCursor"])

\* get_connection: psycopg2.connect(host=..., ..., cursor_factory=...)
ConnectStep ==
  Step("connect",
       [host |-> connection_config["host"],
        port |-> connection_config["port"],
        user |-> connection_config["user"],
        password |-> connection_config["password"],
        database |-> connection_config["database"],
        cursor_factory |-> "RealDictCursor"])

CursorStep == Step("cursor", <<>>)

FetchallStep == Step("fetchall", <<>>)

CommitStep == Step("commit", <<>>)

SerializeStep == Step("serialize", <<>>)

ExecuteStep(arg) == Step("execute", arg)

CloseCall == Call("close", <<>>, "")

\* logger.error(f"...: {e}")
LogLine(prefix, err) == <<prefix, err>>

\* get_connection re-raising without logging
ConnectionLog_Silent(err) == <<>>

\* get_connection: except Exception as e: logger.error(...); raise
ConnectionLog(err) == <<LogLine("Database connection failed: ", err)>>

LogPrefix(h) ==
  CASE h = "handle_query" -> "Query execution failed: "
    [] h = "handle_list_schemas" -> "Failed to list schemas: "
    [] h = "handle_list_tables" -> "Failed to list tables: "
    [] h = "handle_describe_table" -> "Failed to describe table: "

\* close() at the end of the try body instead of in a finally clause
Run_NoFinally(h, steps, d, okText, errPrefix) ==
  LET failed == d.failAt \in 1..Len(steps)
      last == IF failed THEN d.failAt ELSE Len(steps)
      log == [i \in 1..last |->
                Call(steps[i].op, steps[i].arg,
                     IF failed /\ i = d.failAt THEN d.err ELSE "")]
      closing == IF ~failed THEN <<CloseCall>> ELSE <<>>
      text == IF failed THEN ErrorText(errPrefix, d.err) ELSE okText
  IN  Outcome(h, <<TextContent(text)>>, NoException,
              SelectSeq(log, IsDriverCall) \o closing)

\* the except branch logging the error and returning an empty list
Run_EmptyOnError(h, steps, d, okText, errPrefix) ==
  LET failed == d.failAt \in 1..Len(steps)
      last == IF failed THEN d.failAt ELSE Len(steps)
      log == [i \in 1..last |->
                Call(steps[i].op, steps[i].arg,
                     IF failed /\ i = d.failAt THEN d.err ELSE "")]
      connected == ~(failed /\ d.failAt = 1)
      closing == IF connected THEN <<CloseCall>> ELSE <<>>
  IN  Outcome(h, IF failed THEN <<>> ELSE <<TextContent(okText)>>,
              NoException, SelectSeq(log, IsDriverCall) \o closing)

\* the connection kept open for the next call instead of closed
Run_Pooled(h, steps, d, okText, errPrefix) ==
  LET failed == d.failAt \in 1..Len(steps)
      last == IF failed THEN d.failAt ELSE Len(steps)
      log == [i \in 1..last |->
                Call(steps[i].op, steps[i].arg,
                     IF failed /\ i = d.failAt THEN d.err ELSE "")]
      text == IF failed THEN ErrorText(errPrefix, d.err) ELSE okText
  IN  Outcome(h, <<TextContent(text)>>, NoException,
              SelectSeq(log, IsDriverCall))

\* a failed connection attempt made a second time before giving up
Run_RetryConnect(h, steps, d, okText, errPrefix) ==
  LET failed == d.failAt \in 1..Len(steps)
      last == IF failed THEN d.failAt ELSE Len(steps)
      log == [i \in 1..last |->
                Call(steps[i].op, steps[i].arg,
                     IF failed /\ i = d.failAt THEN d.err ELSE "")]
      connected == ~(failed /\ d.failAt = 1)
      closing == IF connected THEN <<CloseCall>> ELSE <<log[1]>>
      text == IF failed THEN ErrorText(errPrefix, d.err) ELSE okText
  IN  Outcome(h, <<TextContent(text)>>, NoException,
              SelectSeq(log, IsDriverCall) \o closing)

\* try: conn = self.get_connection(); ... return [TextContent(okText)]
\* except Exception as e: return [TextContent(errPrefix + str(e))]
\* finally: if 'conn' in locals(): conn.close()
Run(h, steps, d, okText, errPrefix) ==
  LET failed == d.failAt \in 1..Len(steps)
      last == IF failed THEN d.failAt ELSE Len(steps)
      log == [i \in 1..last |->
                Call(steps[i].op, steps[i].arg,
                     IF failed /\ i = d.failAt THEN d.err ELSE "")]
      connected == ~(failed /\ d.failAt = 1)
      closing == IF connected THEN <<CloseCall>> ELSE <<>>
      text == IF failed THEN ErrorText(errPrefix, d.err) ELSE okText
      errors == IF failed
                  THEN (IF connected THEN <<>> ELSE ConnectionLog(d.err))
                         \o <<LogLine(LogPrefix(h), d.err)>>
                  ELSE <<>>
  IN  [Outcome(h, <<TextContent(text)>>, NoException,
               SelectSeq(log, IsDriverCall) \o closing)
         EXCEPT !.logged = errors]

(***************************************************************************)
(* handle_query                                                            *)
(***************************************************************************)
\* a validator that splits the text on every ';'
QueryPrecheck_NaiveSplit(sql) ==
  IF Falsy(sql) THEN ValueError(<<"SQL query is required">>)
  ELSE IF Semicolon \in {sql[i] : i \in DOMAIN sql}
    THEN ValueError(<<"multiple statements">>)
  ELSE NoException

\* the sql argument used without the check
QueryPrecheck_Unchecked(sql) == NoException

QueryPrecheck(sql) ==
  IF Falsy(sql) THEN ValueError(<<"SQL query is required">>) ELSE NoException

QuerySteps(sql, d) ==
  <<ConnectStep, CursorStep, ExecuteStep(sql)>> \o
    (IF IsSelect(sql)
       THEN <<FetchallStep>> \o
              (IF d.rows # <<>> THEN <<SerializeStep>> ELSE <<>>)
       ELSE <<CommitStep>>)

\* the affected rows taken to be the number of rows fetched
QueryOkText_RowsFetched(sql, d) ==
  IF IsSelect(sql)
    THEN IF d.rows # <<>>
           THEN JsonDumps(d.rows)
           ELSE Plain(<<"Query executed successfully. No results returned.">>)
    ELSE Plain(<<"Query executed successfully. ", ToString(Len(d.rows)),
                 " rows affected.">>)

QueryOkText(sql, d) ==
  IF IsSelect(sql)
    THEN IF d.rows # <<>>
           THEN JsonDumps(d.rows)
           ELSE Plain(<<"Query executed successfully. No results returned.">>)
    ELSE Plain(<<"Query executed successfully. ", ToString(d.rowcount),
                 " rows affected.">>)

\* the connection opened before the sql argument is checked
HandleQuery_ConnectFirst(arguments, d) ==
  LET sql == arguments.sql
      pre == QueryPrecheck(sql)
  IN  IF pre.type # "none"
        THEN Outcome("handle_query", <<>>, pre,
                     <<Call("connect", <<>>, ""), CloseCall>>)
        ELSE Run("handle_query", QuerySteps(sql, d), d, QueryOkText(sql, d),
                 "Error executing query: ")

\* the connection of a successful query kept for the next call
HandleQuery_KeepsConnection(arguments, d) ==
  LET sql == arguments.sql
      pre == QueryPrecheck(sql)
      o == Run("handle_query", QuerySteps(sql, d), d, QueryOkText(sql, d),
               "Error executing query: ")
  IN  IF pre.type # "none"
        THEN Outcome("handle_query", <<>>, pre, <<>>)
        ELSE IF d.failAt \in 1..Len(QuerySteps(sql, d))
               THEN o
               ELSE [o EXCEPT !.calls = SubSeq(o.calls, 1, Len(o.calls) - 1)]

HandleQuery(arguments, d) ==
  LET sql == arguments.sql
      pre == QueryPrecheck(sql)
  IN  IF pre.type # "none"
        THEN Outcome("handle_query", <<>>, pre, <<>>)
        ELSE Run("handle_query", QuerySteps(sql, d), d, QueryOkText(sql, d),
                 "Error executing query: ")

(***************************************************************************)
(* handle_list_schemas, handle_list_tables, handle_describe_table          *)
(***************************************************************************)
SchemataQuery == <<"information_schema.schemata">>

TablesQuery(schema) == <<"information_schema.tables", schema>>

ColumnsQuery(schema, table) == <<"information_schema.columns", schema, table>>

PrimaryKeyQuery(schema, table) == <<"PRIMARY KEY", schema, table>>

ForeignKeyQuery(schema, table) == <<"FOREIGN KEY", schema, table>>

\* arguments.get("schema"): no default
SchemaOf_NoDefault(arguments) == arguments.schema

\* arguments.get("schema", "public")
SchemaOf(arguments) ==
  IF arguments.schema = NoneStr THEN "public" ELSE arguments.schema

HandleListSchemas(d) ==
  Run("handle_list_schemas",
      <<ConnectStep, CursorStep, ExecuteStep(SchemataQuery), FetchallStep,
        SerializeStep>>,
      d, JsonDumps(d.rows), "Error listing schemas: ")

\* information_schema.tables: a table users in each of the two schemas
InformationSchemaTables ==
  {[table_schema |-> s, table_name |-> "users", table_type |-> "BASE TABLE"] :
     s \in {"public", "app"}}

\* the collation order of the table names, for ORDER BY table_name
TableNameOrder == <<"users">>

\* SELECT table_name, table_type FROM information_schema.tables
\* WHERE table_schema = %s ORDER BY table_name
TablesRows(schema) ==
  LET rows == {r \in InformationSchemaTables : r.table_schema = schema}
      pos(r) == CHOOSE k \in DOMAIN TableNameOrder :
                  TableNameOrder[k] = r.table_name
      rank(r) == Cardinality({q \in rows : pos(q) <= pos(r)})
  IN  [i \in 1..Cardinality(rows) |-> CHOOSE r \in rows : rank(r) = i]

\* [{"name": row['table_name'], "type": row['table_type']} for row in tables]
TableList(tables) ==
  [i \in DOMAIN tables |->
     [name |-> tables[i].table_name, type |-> tables[i].table_type]]

HandleListTables(arguments, d) ==
  Run("handle_list_tables",
      <<ConnectStep, CursorStep, ExecuteStep(TablesQuery(SchemaOf(arguments))),
        FetchallStep, SerializeStep>>,
      d, JsonDumps(TableList(TablesRows(SchemaOf(arguments)))),
      "Error listing tables: ")

\* table_info holds strings, booleans and integers under string keys and is
\* dumped with default=str: formatting it raises nothing
DescribeTableSteps(schema, table) ==
  <<ConnectStep, CursorStep,
    ExecuteStep(ColumnsQuery(schema, table)), FetchallStep,
    ExecuteStep(PrimaryKeyQuery(schema, table)), FetchallStep,
    ExecuteStep(ForeignKeyQuery(schema, table)), FetchallStep>>

(***************************************************************************)
(* The catalog handle_describe_table reads.  A database is given by the    *)
(* constraints declared on its tables; information_schema shows them as    *)
(* rows.  Both schemas have a table users with the same two columns, and   *)
(* constraint names are unique per table only, as in PostgreSQL.           *)
(***************************************************************************)
Absent == <<>>

ColumnRow(schema, name, pos, type, nullable, default, len, prec, scale) ==
  [table_schema |-> schema, table_name |-> "users", column_name |-> name,
   ordinal_position |-> pos, data_type |-> type, is_nullable |-> nullable,
   column_default |-> default, character_maximum_length |-> len,
   numeric_precision |-> prec, numeric_scale |-> scale]

\* ordinal 2 is a dropped column: ordinal_position keeps the gap
InformationSchemaColumns ==
  UNION {{ColumnRow(s, "id", 1, "integer", "NO", "nextval", Absent, <<32>>,
                    <<0>>),
          ColumnRow(s, "account_id", 3, "character varying", "YES", "<None>",
                    <<36>>, Absent, Absent)} : s \in {"public", "app"}}

Constraint(schema, name, type, columns, ref_table, ref_columns) ==
  [schema |-> schema, table |-> "users", name |-> name, type |-> type,
   columns |-> columns, ref_table |-> ref_table, ref_columns |-> ref_columns]

Constraints ==
  {Constraint("public", "users_pkey", "PRIMARY KEY", <<"id">>, "users",
              <<"id">>),
   Constraint("app", "users_pkey", "PRIMARY KEY", <<"account_id">>, "users",
              <<"account_id">>),
   Constraint("public", "users_account_fkey", "FOREIGN KEY", <<"account_id">>,
              "accounts", <<"id">>),
   Constraint("app", "users_account_fkey", "FOREIGN KEY", <<"account_id">>,
              "accounts", <<"id">>),
   Constraint("public", "users_member_fkey", "FOREIGN KEY",
              <<"id", "account_id">>, "members", <<"user_id", "account_id">>)}

Catalogs == SUBSET Constraints

NoCatalog == {}

\* information_schema.table_constraints
TableConstraints(cat) ==
  {[constraint_schema |-> c.schema, constraint_name |-> c.name,
    table_schema |-> c.schema, table_name |-> c.table,
    constraint_type |-> c.type] : c \in cat}

\* information_schema.key_column_usage: the constrained columns
KeyColumnUsage(cat) ==
  UNION {{[constraint_schema |-> c.schema, constraint_name |-> c.name,
           table_schema |-> c.schema, table_name |-> c.table,
           column_name |-> c.columns[i]] : i \in DOMAIN c.columns} :
         c \in cat}

\* information_schema.constraint_column_usage: the columns a constraint uses,
\* for a foreign key the referenced ones
ConstraintColumnUsage(cat) ==
  UNION {{[constraint_schema |-> c.schema, constraint_name |-> c.name,
           table_schema |-> c.schema, table_name |-> c.ref_table,
           column_name |-> c.ref_columns[i]] : i \in DOMAIN c.ref_columns} :
         c \in cat}

\* SELECT ... FROM information_schema.columns ... ORDER BY ordinal_position
ColumnsRows(schema, table) ==
  LET rows == {r \in InformationSchemaColumns :
                 r.table_schema = schema /\ r.table_name = table}
      rank(r) == Cardinality({q \in rows :
                                q.ordinal_position <= r.ordinal_position})
  IN  [i \in 1..Cardinality(rows) |-> CHOOSE r \in rows : rank(r) = i]

\* the rows of a query without ORDER BY come in no defined order: the result
\* is kept as the multiset of the rows, row |-> number of copies
PrimaryKeyRows(cat, schema, table) ==
  LET joined == {j \in TableConstraints(cat) \X KeyColumnUsage(cat) :
                   /\ j[1].constraint_name = j[2].constraint_name
                   /\ j[1].table_schema = schema
                   /\ j[1].table_name = table
                   /\ j[1].constraint_type = "PRIMARY KEY"}
      row(j) == [column_name |-> j[2].column_name]
  IN  [r \in {row(j) : j \in joined} |->
         Cardinality({j \in joined : row(j) = r})]

ForeignKeyRows(cat, schema, table) ==
  LET joined == {j \in TableConstraints(cat) \X KeyColumnUsage(cat)
                         \X ConstraintColumnUsage(cat) :
                   /\ j[1].constraint_name = j[2].constraint_name
                   /\ j[3].constraint_name = j[1].constraint_name
                   /\ j[1].table_schema = schema
                   /\ j[1].table_name = table
                   /\ j[1].constraint_type = "FOREIGN KEY"}
      row(j) == [column_name |-> j[2].column_name,
                 foreign_table_name |-> j[3].table_name,
                 foreign_column_name |-> j[3].column_name]
  IN  [r \in {row(j) : j \in joined} |->
         Cardinality({j \in joined : row(j) = r})]

\* [row['column_name'] for row in cursor.fetchall()]
PrimaryKeys(rows) ==
  [c \in {r.column_name : r \in DOMAIN rows} |->
     rows[[column_name |-> c]]]

ForeignKeyEntry(fk) ==
  [column |-> fk.column_name,
   references |-> <<fk.foreign_table_name, ".", fk.foreign_column_name>>]

RECURSIVE Copies(_, _)
Copies(rows, among) ==
  IF among = {} THEN 0
  ELSE LET r == CHOOSE r \in among : TRUE
       IN  rows[r] + Copies(rows, among \ {r})

ForeignKeyEntries(rows) ==
  [e \in {ForeignKeyEntry(r) : r \in DOMAIN rows} |->
     Copies(rows, {r \in DOMAIN rows : ForeignKeyEntry(r) = e})]

\* if col[...]: a value that is not None and not 0
Truthy(v) == v # Absent /\ v[1] # 0

ColInfoKeys(col) ==
  {"name", "type", "nullable", "default", "is_primary_key"}
    \cup (IF Truthy(col.character_maximum_length) THEN {"max_length"} ELSE {})
    \cup (IF Truthy(col.numeric_precision) THEN {"precision"} ELSE {})
    \cup (IF Truthy(col.numeric_scale) THEN {"scale"} ELSE {})

ColInfo(col, primary_keys) ==
  [k \in ColInfoKeys(col) |->
     CASE k = "name" -> col.column_name
       [] k = "type" -> col.data_type
       [] k = "nullable" -> (col.is_nullable = "YES")
       [] k = "default" -> col.column_default
       [] k = "is_primary_key" -> (col.column_name \in DOMAIN primary_keys)
       [] k = "max_length" -> col.character_maximum_length[1]
       [] k = "precision" -> col.numeric_precision[1]
       [] k = "scale" -> col.numeric_scale[1]]

TableInfo(schema, table_name, cat) ==
  LET columns == ColumnsRows(schema, table_name)
      primary_keys == PrimaryKeys(PrimaryKeyRows(cat, schema, table_name))
      foreign_keys == ForeignKeyRows(cat, schema, table_name)
  IN  [schema |-> schema, table_name |-> table_name,
       columns |-> [i \in DOMAIN columns |-> ColInfo(columns[i], primary_keys)],
       primary_keys |-> primary_keys,
       foreign_keys |-> ForeignKeyEntries(foreign_keys)]

\* a missing table_name reported as an error result instead of raised
HandleDescribeTable_ErrorResult(arguments, d) ==
  LET table_name == arguments.table_name
      schema == SchemaOf(arguments)
  IN  IF FalsyStr(table_name)
        THEN Outcome("handle_describe_table",
                     <<TextContent(ErrorText("Error describing table: ",
                                             "Table name is required"))>>,
                     NoException, <<>>)
        ELSE Run("handle_describe_table", DescribeTableSteps(schema, table_name),
                 d,
                 JsonDumps(TableInfo(schema, table_name, d.catalog)),
                 "Error describing table: ")

\* primary_keys[0] read while formatting: a table without a primary key
\* ends in the except branch
HandleDescribeTable_RequiresKey(arguments, d) ==
  LET table_name == arguments.table_name
      schema == SchemaOf(arguments)
      steps == DescribeTableSteps(schema, table_name)
      o == Run("handle_describe_table", steps, d,
               JsonDumps(TableInfo(schema, table_name, d.catalog)),
               "Error describing table: ")
      keyless == DOMAIN PrimaryKeyRows(d.catalog, schema, table_name) = {}
  IN  IF FalsyStr(table_name)
        THEN Outcome("handle_describe_table", <<>>,
                     ValueError(<<"Table name is required">>), <<>>)
        ELSE IF d.failAt \notin 1..Len(steps) /\ keyless
               THEN [o EXCEPT !.result =
                       <<TextContent(ErrorText("Error describing table: ",
                                               "list index out of range"))>>]
               ELSE o

HandleDescribeTable(arguments, d) ==
  LET table_name == arguments.table_name
      schema == SchemaOf(arguments)
  IN  IF FalsyStr(table_name)
        THEN Outcome("handle_describe_table", <<>>,
                     ValueError(<<"Table name is required">>), <<>>)
        ELSE Run("handle_describe_table", DescribeTableSteps(schema, table_name),
                 d,
                 JsonDumps(TableInfo(schema, table_name, d.catalog)),
                 "Error describing table: ")

(***************************************************************************)
(* handle_list_tools                                                       *)
(***************************************************************************)
Tool(name, properties, required) ==
  [name |-> name,
   inputSchema |-> [type |-> "object", properties |-> properties,
                    required |-> required]]

StringProperty == [type |-> "string"]

SchemaProperty == [type |-> "string", default |-> "public"]

\* the registry without describe_table
HandleListTools_NoDescribe ==
  <<Tool("query", [sql |-> StringProperty], <<"sql">>),
    Tool("list_schemas", <<>>, <<>>),
    Tool("list_tables", [schema |-> SchemaProperty], <<>>)>>

HandleListTools ==
  <<Tool("query", [sql |-> StringProperty], <<"sql">>),
    Tool("list_schemas", <<>>, <<>>),
    Tool("list_tables", [schema |-> SchemaProperty], <<>>),
    Tool("describe_table",
         [table_name |-> StringProperty, schema |-> SchemaProperty],
         <<"table_name">>)>>

(***************************************************************************)
(* handle_call_tool                                                        *)
(***************************************************************************)
\* a final else that falls through to a handler instead of raising
HandleCallTool_Fallthrough(name, arguments, d) ==
  IF name = "query" THEN HandleQuery(arguments, d)
  ELSE IF name = "list_tables" THEN HandleListTables(arguments, d)
  ELSE IF name = "describe_table" THEN HandleDescribeTable(arguments, d)
  ELSE HandleListSchemas(d)

HandleCallTool(name, arguments, d) ==
  IF name = "query" THEN HandleQuery(arguments, d)
  ELSE IF name = "list_schemas" THEN HandleListSchemas(d)
  ELSE IF name = "list_tables" THEN HandleListTables(arguments, d)
  ELSE IF name = "describe_table" THEN HandleDescribeTable(arguments, d)
  ELSE Outcome("none", <<>>, ValueError(<<"Unknown tool: ", name>>), <<>>)

FailPoints == 0..Len(DescribeTableSteps("", ""))

Oracles ==
  {[failAt |-> 0, err |-> "", rows |-> r, rowcount |-> n,
    catalog |-> NoCatalog] :
     r \in RowLists, n \in 0..MaxRowcount}
  \cup
  {[failAt |-> k, err |-> e, rows |-> [i \in 1..MaxRows |-> i],
    rowcount |-> 0, catalog |-> NoCatalog] :
     k \in FailPoints \ {0}, e \in Errors}

\* handle_describe_table reads the catalog and no other rows
DescribeOracles ==
  {[failAt |-> k, err |-> (IF k = 0 THEN "" ELSE e),
    rows |-> [i \in 1..MaxRows |-> i], rowcount |-> 0, catalog |-> cat] :
     k \in FailPoints, e \in Errors, cat \in Catalogs}

\* connections psycopg2.connect returned, and connections closed, in a log
Opened(log) ==
  Cardinality({i \in DOMAIN log : log[i].op = "connect" /\ log[i].err = ""})

Closed(log) == Cardinality({i \in DOMAIN log : log[i].op = "close"})

\* cursor.rowcount not read
NoRowcount == <<>>

\* cursor.rowcount as the handler reads it, after conn.commit() returned
RowcountRead(log, d) ==
  IF \E i \in DOMAIN log : log[i].op = "commit" /\ log[i].err = ""
    THEN <<d.rowcount>>
    ELSE NoRowcount

(***************************************************************************)
(* The server: one tools/call at a time, then its response is written      *)
(***************************************************************************)
Init ==
  /\ pc = "waiting"
  /\ request = NoRequest
  /\ handler = "none"
  /\ result = <<>>
  /\ raised = NoException
  /\ calls = <<>>
  /\ openConns = 0
  /\ catalog = NoCatalog
  /\ logged = <<>>
  /\ rowcount = NoRowcount
  /\ \E env \in Environments : connection_config = ConnectionConfig(env)

Dispatch(name, arguments, d) ==
  LET o == HandleCallTool(name, arguments, d)
  IN  /\ pc' = "handled"
      /\ request' = [name |-> name, arguments |-> arguments]
      /\ handler' = o.handler
      /\ result' = o.result
      /\ raised' = o.raised
      /\ calls' = o.calls
      /\ openConns' = openConns + Opened(o.calls) - Closed(o.calls)
      /\ catalog' = d.catalog
      /\ logged' = o.logged
      /\ rowcount' = RowcountRead(o.calls, d)
      /\ UNCHANGED connection_config

CallQuery ==
  /\ pc = "waiting"
  /\ \E sql \in SqlArgs, opt \in QueryOptions, d \in Oracles :
       Dispatch("query",
                [NoArguments EXCEPT !.sql = sql,
                                    !.allow_write = opt.allow_write,
                                    !.max_rows = opt.max_rows], d)

CallListSchemas ==
  /\ pc = "waiting"
  /\ \E d \in Oracles : Dispatch("list_schemas", NoArguments, d)

CallListTables ==
  /\ pc = "waiting"
  /\ \E schema \in SchemaArgs, d \in Oracles :
       Dispatch("list_tables", [NoArguments EXCEPT !.schema = schema], d)

CallDescribeTable ==
  /\ pc = "waiting"
  /\ \E schema \in SchemaArgs, table \in TableNameArgs,
        d \in DescribeOracles :
       Dispatch("describe_table",
                [NoArguments EXCEPT !.schema = schema, !.table_name = table],
                d)

CallUnknownTool ==
  /\ pc = "waiting"
  /\ \E name \in UnknownNames, d \in Oracles :
       Dispatch(name, NoArguments, d)

\* tools/list
ListTools ==
  /\ pc = "waiting"
  /\ pc' = "listed"
  /\ handler' = "handle_list_tools"
  /\ result' = HandleListTools
  /\ UNCHANGED <<request, raised, calls, openConns, catalog, logged,
                 rowcount, connection_config>>

SendResponse ==
  /\ pc \in {"handled", "listed"}
  /\ pc' = "waiting"
  /\ request' = NoRequest
  /\ handler' = "none"
  /\ result' = <<>>
  /\ raised' = NoException
  /\ calls' = <<>>
  /\ catalog' = NoCatalog
  /\ logged' = <<>>
  /\ rowcount' = NoRowcount
  /\ UNCHANGED <<openConns, connection_config>>

Next ==
  \/ CallQuery
  \/ CallListSchemas
  \/ CallListTables
  \/ CallDescribeTable
  \/ CallUnknownTool
  \/ ListTools
  \/ SendResponse

Spec == Init /\ [][Next]_vars

TypeOK ==
  /\ pc \in {"waiting", "handled", "listed"}
  /\ handler \in {"none", "handle_list_tools", "handle_query",
                  "handle_list_schemas",
                  "handle_list_tables", "handle_describe_table"}
  /\ catalog \in Catalogs

(***************************************************************************)
(* Vocabulary of the claims                                                *)
(***************************************************************************)
Range(f) == {f[i] : i \in DOMAIN f}

\* the statement's leading keyword, leading whitespace and comments skipped
RECURSIVE SkipIgnorable(_)
SkipIgnorable(s) ==
  IF s # <<>> /\ Head(s) \in {Whitespace, Comment}
    THEN SkipIgnorable(Tail(s))
    ELSE s

LeadingKeyword(s) ==
  IF SkipIgnorable(s) = <<>> THEN "" ELSE UpperToken(Head(SkipIgnorable(s)))

WriteClassified(sql) ==
  LeadingKeyword(sql) \in {"INSERT", "UPDATE", "DELETE", "MERGE"}

AlwaysRejected(sql) == LeadingKeyword(sql) \in {"DROP", "TRUNCATE", "ALTER"}

\* number of ';' tokens outside (quoted = FALSE) or inside (quoted = TRUE)
\* a quoted string literal
RECURSIVE Semicolons(_, _, _)
Semicolons(s, inQuote, quoted) ==
  IF s = <<>> THEN 0
  ELSE IF Head(s) = Quote THEN Semicolons(Tail(s), ~inQuote, quoted)
  ELSE (IF Head(s) = Semicolon /\ inQuote = quoted THEN 1 ELSE 0)
         + Semicolons(Tail(s), inQuote, quoted)

TopLevelSemicolons(s) == Semicolons(s, FALSE, FALSE)

QuotedSemicolons(s) == Semicolons(s, FALSE, TRUE)

QuotesBalanced(s) == Cardinality({i \in DOMAIN s : s[i] = Quote}) % 2 = 0

\* number of non-empty statements between the top-level ';'
RECURSIVE CountStatements(_, _, _)
CountStatements(s, inQuote, open) ==
  IF s = <<>> THEN (IF open THEN 1 ELSE 0)
  ELSE IF Head(s) = Quote THEN CountStatements(Tail(s), ~inQuote, TRUE)
  ELSE IF Head(s) = Semicolon /\ ~inQuote
    THEN (IF open THEN 1 ELSE 0) + CountStatements(Tail(s), FALSE, FALSE)
  ELSE IF Head(s) \in {Whitespace, Comment} /\ ~inQuote
    THEN CountStatements(Tail(s), inQuote, open)
  ELSE CountStatements(Tail(s), inQuote, TRUE)

StatementCount(s) == CountStatements(s, FALSE, FALSE)

Handled == pc = "handled"

Queried == Handled /\ request.name = "query" /\ request.arguments.sql # None

Sql == request.arguments.sql

Attempted(op) == \E i \in DOMAIN calls : calls[i].op = op

Succeeded(op) == \E i \in DOMAIN calls : calls[i].op = op /\ calls[i].err = ""

Failed(op) == \E i \in DOMAIN calls : calls[i].op = op /\ calls[i].err # ""

Count(op) == Cardinality({i \in DOMAIN calls : calls[i].op = op})

Connected == Succeeded("connect")

ConnectFailed == Failed("connect")

Returned == Handled /\ handler # "none" /\ raised.type = "none"

SingleTextItem == Len(result) = 1 /\ result[1].type = "text"

\* the returned text is a message that has s as one of its parts
TextContains(s) ==
  /\ Len(result) = 1
  /\ result[1].text.format = "plain"
  /\ s \in Range(result[1].text.body)

\* a validation error carrying the reason, raised or returned
ValidationError(reason) ==
  \/ raised.type # "none" /\ reason \in Range(raised.msg)
  \/ raised.type = "none" /\ TextContains(reason)

(***************************************************************************)
(* C1: a write-classified statement (INSERT, UPDATE, DELETE, MERGE) sent   *)
(* to the query operation with the default allow_write=false comes back as *)
(* a validation error whose reason contains "not allowed", and it is       *)
(* neither executed nor committed.                                         *)
(***************************************************************************)
C1_WriteBlockedByDefault ==
  (Queried /\ WriteClassified(Sql) /\ StatementCount(Sql) = 1
     /\ request.arguments.allow_write \in {NoneStr, "false"})
    => (ValidationError("not allowed") /\ ~Attempted("execute")
          /\ ~Attempted("commit"))

(***************************************************************************)
(* C2: a statement whose leading keyword is DROP, TRUNCATE or ALTER is     *)
(* rejected as "not allowed" and never executed, whatever allow_write is.  *)
(***************************************************************************)
C2_DdlAlwaysRejected ==
  (Queried /\ AlwaysRejected(Sql) /\ StatementCount(Sql) = 1)
    => (ValidationError("not allowed") /\ ~Attempted("execute"))

(***************************************************************************)
(* C3: a query text with more than one statement is rejected with a        *)
(* "multiple statements" reason and none of its statements is executed.    *)
(***************************************************************************)
C3_MultipleStatementsRejected ==
  (Queried /\ TopLevelSemicolons(Sql) > 1 /\ StatementCount(Sql) > 1)
    => (ValidationError("multiple statements") /\ ~Attempted("execute"))

(***************************************************************************)
(* C4: a SQL string whose only ';' lie inside a quoted string literal is   *)
(* not classified as multi-statement.                                      *)
(***************************************************************************)
OnlyQuotedSemicolons(sql) ==
  /\ QuotedSemicolons(sql) > 0
  /\ TopLevelSemicolons(sql) = 0
  /\ QuotesBalanced(sql)
  /\ Comment \notin Range(sql)

C4_QuotedSemicolonNotMultiStatement ==
  (Queried /\ OnlyQuotedSemicolons(Sql))
    => ~ValidationError("multiple statements")

C4_Witness ==
  /\ Queried /\ OnlyQuotedSemicolons(Sql)
  /\ raised.type = "none"
  /\ \E i \in DOMAIN calls :
       calls[i].op = "execute" /\ calls[i].arg = Sql /\ calls[i].err = ""

(***************************************************************************)
(* C5: in the query operation validation comes before any database access: *)
(* when the SQL is rejected, no connection was acquired and nothing was    *)
(* executed.                                                               *)
(***************************************************************************)
Rejected == Handled /\ request.name = "query" /\ raised.type = "ValueError"

C5_ValidationBeforeDatabase == Rejected => calls = <<>>

C5_Witness ==
  /\ Rejected
  /\ request.arguments.sql = <<>>
  /\ "SQL query is required" \in Range(raised.msg)
  /\ calls = <<>>

(***************************************************************************)
(* C6: in every handler, a connection that get_connection returned is      *)
(* closed exactly once, as the last driver call before the handler         *)
(* returns, whichever later step raised.                                   *)
(***************************************************************************)
C6_ConnectionClosedOnce ==
  (Handled /\ handler # "none" /\ Connected)
    => (Count("close") = 1 /\ calls[Len(calls)].op = "close")

C6_Witness ==
  /\ Handled /\ handler = "handle_describe_table" /\ Connected
  /\ Failed("execute")
  /\ Count("close") = 1

(***************************************************************************)
(* C7: when get_connection raises, the handler returns a single text item  *)
(* that contains the original error message; nothing propagates and no     *)
(* close is attempted.                                                     *)
(***************************************************************************)
C7_ConnectFailureIsErrorResult ==
  (Handled /\ handler # "none" /\ ConnectFailed)
    => /\ raised = NoException
       /\ SingleTextItem
       /\ TextContains(calls[1].err)
       /\ ~Attempted("close")

C7_Witness ==
  /\ Handled /\ handler = "handle_list_tables" /\ ConnectFailed
  /\ TextContains("Connection failed")
  /\ Len(calls) = 1
  /\ calls[1].op = "connect"
  /\ calls[1].err = "Connection failed"

(***************************************************************************)
(* C8: when a write statement fails during execute or commit, a rollback   *)
(* is performed on the connection before the connection is released.       *)
(***************************************************************************)
C8_RollbackBeforeRelease ==
  (Queried /\ WriteClassified(Sql) /\ (Failed("execute") \/ Failed("commit")))
    => \E j, k \in DOMAIN calls :
         j < k /\ calls[j].op = "rollback" /\ calls[k].op = "close"

(***************************************************************************)
(* C9: a tools/call whose name is not a registered tool produces an error  *)
(* that identifies the unknown name; no handler runs and no connection is  *)
(* acquired.                                                               *)
(***************************************************************************)
C9_UnknownToolError ==
  (Handled /\ request.name \notin ToolNames)
    => /\ raised.type = "ValueError"
       /\ request.name \in Range(raised.msg)
       /\ handler = "none"
       /\ result = <<>>
       /\ calls = <<>>

C9_Witness ==
  /\ Handled /\ request.name = "explain_query"
  /\ raised = ValueError(<<"Unknown tool: ", "explain_query">>)
  /\ calls = <<>>

(***************************************************************************)
(* C10: every result a handler returns, on success and on error paths, is  *)
(* a list of exactly one content item of type "text".                      *)
(***************************************************************************)
C10_SingleTextResult == Returned => SingleTextItem

C10_Witness ==
  /\ Returned /\ handler = "handle_list_schemas"
  /\ Failed("fetchall")
  /\ SingleTextItem

(***************************************************************************)
(* C11: the text of the content item a handler returns is a JSON-serialized*)
(* payload for every outcome: rows, no rows, write performed, error.       *)
(***************************************************************************)
C11_TextIsJson ==
  Returned => (SingleTextItem /\ result[1].text.format = "json")

(***************************************************************************)
(* C12: a tool call that lacks a required argument (sql for query,         *)
(* table_name for describe_table) comes back as a normal tool result       *)
(* carrying an error; nothing is raised out of the handler.                *)
(***************************************************************************)
MissingRequiredArgument ==
  /\ Handled
  /\ \/ request.name = "query" /\ request.arguments.sql = None
     \/ request.name = "describe_table"
          /\ request.arguments.table_name = NoneStr

C12_MissingArgumentIsResult ==
  MissingRequiredArgument => (raised = NoException /\ SingleTextItem)

\* as amended: the handler raises ValueError and returns nothing
C12_MissingArgumentRaises ==
  MissingRequiredArgument
    => /\ raised.type = "ValueError"
       /\ result = <<>>
       /\ handler \in {"handle_query", "handle_describe_table"}

C12_Witness ==
  /\ MissingRequiredArgument
  /\ request.name = "query"
  /\ raised.type = "ValueError"
  /\ result = <<>>

(***************************************************************************)
(* C13: handle_query without sql raises ValueError "SQL query is required" *)
(* and handle_describe_table without table_name raises ValueError          *)
(* "Table name is required", both before any connection is acquired.       *)
(***************************************************************************)
C13_MissingArgumentMessages ==
  /\ (Handled /\ request.name = "query" /\ request.arguments.sql = None)
       => (raised = ValueError(<<"SQL query is required">>) /\ calls = <<>>)
  /\ (Handled /\ request.name = "describe_table"
        /\ request.arguments.table_name = NoneStr)
       => (raised = ValueError(<<"Table name is required">>) /\ calls = <<>>)

C13_Witness ==
  /\ Handled /\ request.name = "describe_table"
  /\ request.arguments.table_name = NoneStr
  /\ raised = ValueError(<<"Table name is required">>)
  /\ calls = <<>>

(***************************************************************************)
(* C17: each tool call that reaches the database opens exactly one new     *)
(* connection, makes all its driver calls between that connect and its     *)
(* close, and no connection is open when no handler is running.            *)
(***************************************************************************)
C17_FreshConnectionPerCall ==
  /\ openConns = 0
  /\ (Handled /\ calls # <<>>)
       => (Count("connect") = 1 /\ calls[1].op = "connect")
  /\ (Handled /\ Connected)
       => \A i \in DOMAIN calls :
            (calls[i].op = "close") <=> (i = Len(calls))

C17_Witness ==
  /\ Handled /\ handler = "handle_list_schemas"
  /\ Succeeded("fetchall")
  /\ Count("connect") = 1
  /\ calls[Len(calls)].op = "close"
  /\ openConns = 0

(***************************************************************************)
(* C18: the query operation called with max_rows=n returns at most n of    *)
(* the rows the statement produced, truncated after execution.             *)
(***************************************************************************)
RowsReturned ==
  /\ Queried /\ raised.type = "none"
  /\ Len(result) = 1
  /\ result[1].text.format = "json"

C18_MaxRowsTruncates ==
  (RowsReturned /\ request.arguments.max_rows # <<>>)
    => Len(result[1].text.body) <= request.arguments.max_rows[1]

(***************************************************************************)
(* C19: a statement whose leading keyword, compared case-insensitively     *)
(* after leading whitespace and comments, is SELECT, WITH (resolving to a  *)
(* read) or EXPLAIN is a read: its rows are fetched and returned, nothing  *)
(* is committed and no affected-row count is reported.                     *)
(***************************************************************************)
DataModifying ==
  {"INSERT", "UPDATE", "DELETE", "MERGE", "DROP", "TRUNCATE", "ALTER"}

ReadClassified(sql) ==
  \/ LeadingKeyword(sql) \in {"SELECT", "EXPLAIN"}
  \/ LeadingKeyword(sql) = "WITH" /\ Range(Upper(sql)) \cap DataModifying = {}

C19_ReadsAreFetched ==
  (Queried /\ ReadClassified(Sql) /\ StatementCount(Sql) = 1
     /\ Succeeded("execute"))
    => /\ Attempted("fetchall")
       /\ ~Attempted("commit")
       /\ ~TextContains(" rows affected.")

(***************************************************************************)
(* C20: in the result of describe_table, is_primary_key is true exactly    *)
(* for the primary-key columns of the described table, the columns come in *)
(* catalog ordinal order, and foreign_keys holds exactly one entry per     *)
(* foreign key of that table, its column a column of the key and its       *)
(* references the "<table>.<column>" the key refers to.                    *)
(***************************************************************************)
Described ==
  /\ Returned
  /\ handler = "handle_describe_table"
  /\ result[1].text.format = "json"

Info == result[1].text.body

KeysOf(type) ==
  {c \in catalog : /\ c.type = type
                   /\ c.schema = Info.schema
                   /\ c.table = Info.table_name}

PrimaryKeyColumns == UNION {Range(c.columns) : c \in KeysOf("PRIMARY KEY")}

OrdinalOf(name) ==
  (CHOOSE r \in InformationSchemaColumns :
     /\ r.table_schema = Info.schema
     /\ r.table_name = Info.table_name
     /\ r.column_name = name).ordinal_position

EntriesFor(fk) ==
  {e \in DOMAIN Info.foreign_keys :
     \E i \in DOMAIN fk.columns :
       /\ e.column = fk.columns[i]
       /\ e.references = <<fk.ref_table, ".", fk.ref_columns[i]>>}

PrimaryKeyFlagsRight ==
  \A i \in DOMAIN Info.columns :
    Info.columns[i].is_primary_key
      <=> Info.columns[i].name \in PrimaryKeyColumns

ColumnsInOrdinalOrder ==
  \A i, j \in DOMAIN Info.columns :
    i < j => OrdinalOf(Info.columns[i].name) < OrdinalOf(Info.columns[j].name)

OneEntryPerForeignKey ==
  /\ Copies(Info.foreign_keys, DOMAIN Info.foreign_keys)
       = Cardinality(KeysOf("FOREIGN KEY"))
  /\ \A fk \in KeysOf("FOREIGN KEY") : EntriesFor(fk) # {}
  /\ \A e \in DOMAIN Info.foreign_keys :
       \E fk \in KeysOf("FOREIGN KEY") : e \in EntriesFor(fk)

C20_DescribeTableKeys ==
  Described =>
    PrimaryKeyFlagsRight /\ ColumnsInOrdinalOrder /\ OneEntryPerForeignKey

(***************************************************************************)
(* C21: round trip.  Against any database state, describe_table called on  *)
(* a table name that list_tables returns for the same schema argument      *)
(* never yields an error result while the database answers: the result is  *)
(* the JSON description of the table and nothing is raised.                *)
(***************************************************************************)
DriverFailed == \E i \in DOMAIN calls : calls[i].err # ""

\* the driver of the current database state when nothing fails
WorkingDriver ==
  [failAt |-> 0, err |-> "", rows |-> <<>>, rowcount |-> 0,
   catalog |-> catalog]

\* the names in the result of list_tables called with this schema argument
ListedTableNames(schema) ==
  LET listing == HandleListTables([NoArguments EXCEPT !.schema = schema],
                                  WorkingDriver).result[1].text.body
  IN  {listing[i].name : i \in DOMAIN listing}

DescribedListed ==
  /\ Handled
  /\ request.name = "describe_table"
  /\ request.arguments.table_name
       \in ListedTableNames(request.arguments.schema)
  /\ ~DriverFailed

C21_ListedTablesDescribe ==
  DescribedListed =>
    /\ raised = NoException
    /\ SingleTextItem
    /\ result[1].text.format = "json"
    /\ Info.table_name = request.arguments.table_name
    /\ Len(Info.columns) > 0

C21_Witness ==
  /\ DescribedListed
  /\ request.arguments.schema = "app"
  /\ catalog # NoCatalog
  /\ Attempted("close")

(***************************************************************************)
(* C23: tools/list returns, in every reachable state, the same registry:   *)
(* at least four tools with pairwise different names, among them query     *)
(* with a required string parameter sql, list_schemas, list_tables and     *)
(* describe_table; the advertised names are exactly the names tools/call   *)
(* routes to a handler.                                                    *)
(***************************************************************************)
ToolsListed == pc = "listed"

Advertised == {result[i].name : i \in DOMAIN result}

\* the names handle_call_tool passes on to a handler
Routed ==
  {n \in ToolNames \cup UnknownNames \cup Advertised :
     HandleCallTool(n, NoArguments, WorkingDriver).handler # "none"}

QueryTool == CHOOSE i \in DOMAIN result : result[i].name = "query"

C23_FixedRegistry ==
  ToolsListed =>
    /\ result = HandleListTools
    /\ Len(result) >= 4
    /\ \A i, j \in DOMAIN result : result[i].name = result[j].name => i = j
    /\ {"query", "list_schemas", "list_tables", "describe_table"}
         \subseteq Advertised
    /\ "sql" \in Range(result[QueryTool].inputSchema.required)
    /\ result[QueryTool].inputSchema.properties.sql.type = "string"
    /\ Advertised = Routed

C23_Witness ==
  /\ ToolsListed
  /\ handler = "handle_list_tools"
  /\ Cardinality(Advertised) = 4

(***************************************************************************)
(* C24: a failure to acquire the connection and a failure to execute a     *)
(* statement come back in the same shape, one text item made of the        *)
(* handler's error prefix and the message of the exception, and the error  *)
(* log tells the stage: "Database connection failed" is logged exactly     *)
(* when the connection attempt is what failed.                             *)
(***************************************************************************)
ErrorPrefix ==
  CASE handler = "handle_query" -> "Error executing query: "
    [] handler = "handle_list_schemas" -> "Error listing schemas: "
    [] handler = "handle_list_tables" -> "Error listing tables: "
    [] handler = "handle_describe_table" -> "Error describing table: "

FailureMessage == (CHOOSE c \in Range(calls) : c.err # "").err

StageFailed == Returned /\ (Failed("connect") \/ Failed("execute"))

ConnectionFailureLogged ==
  \E i \in DOMAIN logged : logged[i][1] = "Database connection failed: "

C24_StageOfFailure ==
  StageFailed =>
    /\ SingleTextItem
    /\ result[1].text = Plain(<<ErrorPrefix, FailureMessage>>)
    /\ logged # <<>>
    /\ \A i \in DOMAIN logged : logged[i][2] = FailureMessage
    /\ ConnectionFailureLogged <=> Failed("connect")

C24_Witness ==
  /\ StageFailed /\ handler = "handle_query"
  /\ Failed("connect")
  /\ ConnectionFailureLogged
  /\ result[1].text = Plain(<<"Error executing query: ", "Query failed">>)

(***************************************************************************)
(* C25: a query call whose sql is empty or consists of whitespace only is  *)
(* rejected as invalid input: a ValueError is raised, no connection is     *)
(* acquired and nothing is sent to the database.                           *)
(***************************************************************************)
BlankSql ==
  /\ Handled
  /\ request.name = "query"
  /\ request.arguments.sql # None
  /\ Strip(request.arguments.sql) = <<>>

C25_BlankSqlRejected ==
  BlankSql => /\ raised.type = "ValueError"
              /\ result = <<>>
              /\ calls = <<>>

(***************************************************************************)
(* C26: nothing is retried.  Within one tool call the connection is        *)
(* attempted at most once and no statement is executed twice; the query    *)
(* handler passes the sql text to the database as it was given; after the  *)
(* first failure nothing more is attempted (the connection is only closed) *)
(* and that failure is what the error result reports.                      *)
(***************************************************************************)
FailedAt(i) == i \in DOMAIN calls /\ calls[i].err # ""

C26_NoRetry ==
  Handled =>
    /\ Count("connect") <= 1
    /\ \A i, j \in DOMAIN calls :
         (calls[i].op = "execute" /\ calls[j].op = "execute"
            /\ calls[i].arg = calls[j].arg) => i = j
    /\ Queried =>
         \A i \in DOMAIN calls : calls[i].op = "execute" => calls[i].arg = Sql
    /\ \A i \in DOMAIN calls :
         FailedAt(i) =>
           /\ \A j \in DOMAIN calls : j > i => calls[j].op = "close"
           /\ raised = NoException
           /\ result = <<TextContent(Plain(<<ErrorPrefix, calls[i].err>>))>>

C26_Witness ==
  /\ Queried
  /\ Sql = <<"SELECT", ";", "DROP">>
  /\ Count("connect") = 1
  /\ Count("execute") = 1
  /\ Failed("execute")
  /\ calls[Len(calls)].op = "close"

(***************************************************************************)
(* C27: in the query handler commit is called exactly once when the        *)
(* statement is not classified as a SELECT and execute returned without    *)
(* raising, and never otherwise; it comes after execute and before close,  *)
(* and the affected-row count reported is the cursor's rowcount.           *)
(***************************************************************************)
QueryRan == Handled /\ handler = "handle_query" /\ raised = NoException

CommitDue == ~IsSelect(Sql) /\ Succeeded("execute")

C27_CommitOncePerWrite ==
  QueryRan =>
    /\ Count("commit") = (IF CommitDue THEN 1 ELSE 0)
    /\ \A k \in DOMAIN calls :
         calls[k].op = "commit" =>
           /\ \E j \in 1..(k - 1) :
                calls[j].op = "execute" /\ calls[j].err = ""
           /\ \A j \in 1..k : calls[j].op # "close"
           /\ \E j \in (k + 1)..Len(calls) : calls[j].op = "close"
    /\ Succeeded("commit") =>
         result = <<TextContent(Plain(<<"Query executed successfully. ",
                                        ToString(rowcount[1]),
                                        " rows affected.">>))>>

C27_Witness ==
  /\ QueryRan
  /\ LeadingKeyword(Sql) = "INSERT"
  /\ Count("commit") = 1
  /\ Succeeded("commit")
  /\ rowcount = <<MaxRowcount>>
  /\ TextContains(ToString(MaxRowcount))

(***************************************************************************)
(* C28: no tool call changes the connection configuration: in every step   *)
(* connection_config keeps the value it was given at construction, and     *)
(* every connection attempt passes exactly its host, port, user, password  *)
(* and database to the driver.                                             *)
(***************************************************************************)
ConnectKeys == {"host", "port", "user", "password", "database"}

ConnectsWithConfig ==
  \A i \in DOMAIN calls :
    calls[i].op = "connect" =>
      \A k \in ConnectKeys : calls[i].arg[k] = connection_config[k]

ConfigFromEnvironment ==
  \E env \in Environments : connection_config = ConnectionConfig(env)

C28_ConfigUnchanged ==
  /\ [](ConfigFromEnvironment /\ ConnectsWithConfig)
  /\ [][connection_config' = connection_config]_vars

C28_Witness ==
  /\ Handled
  /\ connection_config.host = "db.internal"
  /\ connection_config.port = 5433
  /\ Failed("connect")
  /\ calls[1].arg.database = "shop"

(***************************************************************************)
(* C29: tool calls are independent.  A call's result is computed from its  *)
(* name, its arguments, what the database answers and the state the server *)
(* is in when the call arrives; whatever calls came before, successful or  *)
(* failed, that state is the state of the newly constructed server: the    *)
(* configuration read at construction, no connection open, nothing kept of *)
(* an earlier request, result, error or row count.  Two runs given the     *)
(* same call against the same database state so return the same result.    *)
(***************************************************************************)
AwaitingCall == pc = "waiting"

AsConstructed ==
  /\ ConfigFromEnvironment
  /\ openConns = 0
  /\ request = NoRequest
  /\ handler = "none"
  /\ result = <<>>
  /\ raised = NoException
  /\ calls = <<>>
  /\ logged = <<>>
  /\ rowcount = NoRowcount
  /\ catalog = NoCatalog

C29_CallsIndependent == AwaitingCall => AsConstructed

C29_Witness ==
  /\ Handled
  /\ handler = "handle_query"
  /\ Succeeded("fetchall")
  /\ result # <<>>
  /\ calls[Len(calls)].op = "close"
  /\ openConns = 0

(***************************************************************************)
(* C30: for list_tables and describe_table, a call that omits the schema   *)
(* argument issues the same catalog queries and returns the same result as *)
(* the same call with schema = "public", whatever the database answers.    *)
(***************************************************************************)
SchemaOmitted ==
  /\ Handled
  /\ request.name \in {"list_tables", "describe_table"}
  /\ request.arguments.schema = NoneStr

\* what the driver may do during a call against the current database state
DriversNow == {d \in Oracles \cup DescribeOracles : d.catalog = catalog}

WithPublic == [request.arguments EXCEPT !.schema = "public"]

Observed(o) ==
  /\ o.handler = handler
  /\ o.result = result
  /\ o.raised = raised
  /\ o.calls = calls

C30_SchemaDefaultsToPublic ==
  SchemaOmitted =>
    /\ \A d \in DriversNow :
         HandleCallTool(request.name, request.arguments, d)
           = HandleCallTool(request.name, WithPublic, d)
    /\ \E d \in DriversNow :
         Observed(HandleCallTool(request.name, WithPublic, d))

C30_Witness ==
  /\ SchemaOmitted
  /\ Described
  /\ Info.schema = "public"
  /\ Info.table_name = "users"
  /\ catalog # NoCatalog
  /\ \E i \in DOMAIN calls :
       calls[i] = Call("execute", ColumnsQuery("public", "users"), "")

====
